---- MODULE Spec2Model ----
(***************************************************************************)
(* A model of the backtracking Sudoku solver of src/sudoku_solver.c:       *)
(* the puzzle state (struct sudoku), change_state_at and its two wrappers, *)
(* get_possibilities_at, get_most_constrained_cell, read_input and the     *)
(* recursive solve, unfolded into an explicit stack of frames.             *)
(*                                                                         *)
(* The source is compiled with SQRT_N = 3 (a 9x9 grid).  Every function of *)
(* the source is written in terms of SQRT_N and N only, and the model      *)
(* keeps that code unchanged but instantiates it with SQRT_N = 2 (a 4x4    *)
(* grid with 2x2 boxes), the largest instance whose search TLC can         *)
(* enumerate exhaustively.                                                 *)
(***************************************************************************)
EXTENDS Integers, Sequences, FiniteSets

\* sudoku_solver.c:38 (#define SQRT_N 3), instantiated at box size 2.
SQRT_N == 2

\* sudoku_solver.c:39
N == SQRT_N * SQRT_N

\* The puzzle text holds at most MaxInput characters before end of file.
MaxInput == 11

\* The puzzle text holds at most MaxClues digits.
MaxClues == 3

\* The interface specification commits at most MaxFilled cells at a time.
MaxFilled == 2

\* Index range of rows, columns and numbers: 0 <= x < N.
Idx == 0 .. (N - 1)

VARIABLES
    s,       \* the sudoku struct of main (sudoku_solver.c:279)
    pc,      \* where main is: "read_input", "solve", "done", "abort", or "api"
    given,   \* the value the caller gave each cell, 0 where it gave none:
             \* the puzzle text read so far, or the commits of the interface
    held,    \* the number each cell holds, plus 1, and 0 where it holds
             \* none: the argument of the last insertion not yet removed
    pos,     \* read_input's position i*N + j in the puzzle text
    ctl,     \* inside solve: "call" (entering a frame), "loop" (at the head
             \* of the for loop of the top frame), "ret" (a frame returned)
    stack,   \* the active solve frames that are inside their for loop
    found    \* the value returned by the solve call that returned last

vars == <<s, pc, given, held, pos, ctl, stack, found>>

-----------------------------------------------------------------------------
\* new_sudoku: every counter and flag zero.
new_sudoku ==
    [ constraints |-> [i \in Idx |-> [j \in Idx |-> [n \in Idx |-> 0]]],
      inserted    |-> [i \in Idx |-> [j \in Idx |-> 0]],
      ninserted   |-> 0,
      nbacktracks |-> 0 ]

\* A box sweep that runs over the whole band of rows of the box (sq_col
\* left out of the column index).
InBoxOfWholeBand(row, col, i, j) ==
    i \div SQRT_N = row \div SQRT_N

\* A box sweep that visits the cell itself only (the offsets i, j left
\* out of the indices).
InBoxOfCellOnly(row, col, i, j) ==
    i = row /\ j = col

\* The cell (i, j) lies in the box of (row, col): the box sweep of
\* change_state_at (lines 94-102) visits the cells
\* (SQRT_N*sq_row + i', SQRT_N*sq_col + j') for i', j' < SQRT_N.
InBoxOf(row, col, i, j) ==
    /\ i \div SQRT_N = row \div SQRT_N
    /\ j \div SQRT_N = col \div SQRT_N

\* Sweeps in which the box sweep subtracts shift at the cells of the box
\* that lie neither in the row nor in the column.
CellHitsBoxCornerDown(row, col, i, j) ==
    IF InBoxOf(row, col, i, j) /\ i # row /\ j # col
    THEN -1
    ELSE   (IF i = row THEN 1 ELSE 0)
         + (IF j = col THEN 1 ELSE 0)
         + (IF InBoxOf(row, col, i, j) THEN 1 ELSE 0)

\* Sweeps that touch a cell lying in two of the groups once only (the
\* "if"s the comment of line 103 speaks of, put around every peer).
CellHitsOnce(row, col, i, j) ==
    IF i = row /\ j = col THEN 3
    ELSE IF i = row \/ j = col \/ InBoxOf(row, col, i, j) THEN 1
    ELSE 0

\* How many of the three sweeps over number (the row sweep of line 89,
\* the column sweep of line 90 and the box sweep of line 101) touch the
\* slot constraints[i][j][number] in change_state_at(row, col, number).
CellHits(row, col, i, j) ==
      (IF i = row THEN 1 ELSE 0)
    + (IF j = col THEN 1 ELSE 0)
    + (IF InBoxOf(row, col, i, j) THEN 1 ELSE 0)

\* The sweeps without line 91 (the slots of the cell itself).
SweptWithoutOwnCell(st, row, col, number, shift) ==
    [i \in Idx |-> [j \in Idx |->
        IF CellHits(row, col, i, j) = 0
        THEN st.constraints[i][j]
        ELSE [st.constraints[i][j] EXCEPT
                ![number] = @ + shift * CellHits(row, col, i, j)]]]

\* The constraints array after the sweeps (lines 87-102).  Line 91 adds
\* shift to every slot constraints[row][col][a] of the cell itself; the
\* other three statements add shift to the slot of number in each cell
\* they visit.
Swept(st, row, col, number, shift) ==
    [i \in Idx |-> [j \in Idx |->
        IF i = row /\ j = col
        THEN [n \in Idx |->
                st.constraints[i][j][n]
                + shift * (1 + (IF n = number THEN CellHits(row, col, i, j)
                                              ELSE 0))]
        ELSE IF CellHits(row, col, i, j) = 0
        THEN st.constraints[i][j]
        ELSE [st.constraints[i][j] EXCEPT
                ![number] = @ + shift * CellHits(row, col, i, j)]]]

\* The entry assertion compiled away.
EntryAssertOff(st, row, col, number) == TRUE

\* The entry assertion of change_state_at (line 78).
EntryAssert(st, row, col, number) ==
    st.constraints[row][col][number] = 0

\* change_state_at with line 106 written as s->ninserted++.
change_state_at_CountsUp(st, row, col, number, type) ==
    IF ~EntryAssert(st, row, col, number)
    THEN [ok |-> FALSE, s |-> st]
    ELSE LET flagged == [st EXCEPT !.inserted[row][col] =
                                      IF type = -1 THEN 0 ELSE 1]
             swept   == [flagged EXCEPT !.constraints =
                                      Swept(st, row, col, number, type)]
         IN  IF swept.constraints[row][col][number] # type * 4
             THEN [ok |-> FALSE, s |-> swept]
             ELSE [ok |-> TRUE,
                   s  |-> [swept EXCEPT !.constraints[row][col][number] = 0,
                                        !.ninserted = @ + 1]]

\* change_state_at without the reset of line 105.
change_state_at_NoReset(st, row, col, number, type) ==
    IF ~EntryAssert(st, row, col, number)
    THEN [ok |-> FALSE, s |-> st]
    ELSE LET flagged == [st EXCEPT !.inserted[row][col] =
                                      IF type = -1 THEN 0 ELSE 1]
             swept   == [flagged EXCEPT !.constraints =
                                      Swept(st, row, col, number, type)]
         IN  IF swept.constraints[row][col][number] # type * 4
             THEN [ok |-> FALSE, s |-> swept]
             ELSE [ok |-> TRUE,
                   s  |-> [swept EXCEPT !.ninserted = @ + type]]

\* change_state_at with lines 80-83 setting the flag for either type.
change_state_at_FlagStays(st, row, col, number, type) ==
    IF ~EntryAssert(st, row, col, number)
    THEN [ok |-> FALSE, s |-> st]
    ELSE LET flagged == [st EXCEPT !.inserted[row][col] = 1]
             swept   == [flagged EXCEPT !.constraints =
                                      Swept(st, row, col, number, type)]
         IN  IF swept.constraints[row][col][number] # type * 4
             THEN [ok |-> FALSE, s |-> swept]
             ELSE [ok |-> TRUE,
                   s  |-> [swept EXCEPT !.constraints[row][col][number] = 0,
                                        !.ninserted = @ + type]]

\* change_state_at(s, row, col, number, type).  The result is the state
\* the call leaves and whether it returned (ok) or an assertion aborted
\* the process at that state.
change_state_at(st, row, col, number, type) ==
    IF ~EntryAssert(st, row, col, number)
    THEN [ok |-> FALSE, s |-> st]
    ELSE LET flagged == [st EXCEPT !.inserted[row][col] =
                                      IF type = -1 THEN 0 ELSE 1]
             swept   == [flagged EXCEPT !.constraints =
                                      Swept(st, row, col, number, type)]
         IN  IF swept.constraints[row][col][number] # type * 4
             THEN [ok |-> FALSE, s |-> swept]
             ELSE [ok |-> TRUE,
                   s  |-> [swept EXCEPT !.constraints[row][col][number] = 0,
                                        !.ninserted = @ + type]]

\* insert_number_at passing the type of remove_number_at.
insert_number_at_Minus(st, row, col, number) ==
    change_state_at(st, row, col, number, -1)

insert_number_at(st, row, col, number) ==
    change_state_at(st, row, col, number, 1)

\* remove_number_at passing the type of insert_number_at.
remove_number_at_Plus(st, row, col, number) ==
    change_state_at(st, row, col, number, 1)

remove_number_at(st, row, col, number) ==
    change_state_at(st, row, col, number, -1)

-----------------------------------------------------------------------------
\* The loop over n run downwards.
NumbersDescending == [k \in 1 .. N |-> N - k]

\* The numbers 0 .. N-1 in the order the loops over n visit them.
Numbers == [k \in 1 .. N |-> k - 1]

\* get_possibilities_at: the numbers with no active restriction, in the
\* order of the loop over n; poss_counter is the length of the sequence.
get_possibilities_at(st, row, col) ==
    SelectSeq(Numbers, LAMBDA n : st.constraints[row][col][n] = 0)

\* The scan with the comparison of line 148 written as <=.
RECURSIVE ScanFromLastMinimum(_, _, _)
ScanFromLastMinimum(st, k, acc) ==
    IF k >= N * N THEN acc
    ELSE LET i   == k \div N
             j   == k % N
             cnt == Len(get_possibilities_at(st, i, j))
         IN  IF st.inserted[i][j] = 0 /\ cnt <= acc.min
             THEN ScanFromLastMinimum(st, k + 1,
                                      [min |-> cnt, row |-> i, col |-> j])
             ELSE ScanFromLastMinimum(st, k + 1, acc)

\* The scan without the test of line 146 (!s->inserted[i][j]).
RECURSIVE ScanFromAnyCell(_, _, _)
ScanFromAnyCell(st, k, acc) ==
    IF k >= N * N THEN acc
    ELSE LET i   == k \div N
             j   == k % N
             cnt == Len(get_possibilities_at(st, i, j))
         IN  IF cnt < acc.min
             THEN ScanFromAnyCell(st, k + 1,
                                  [min |-> cnt, row |-> i, col |-> j])
             ELSE ScanFromAnyCell(st, k + 1, acc)

\* One step of the scan of get_most_constrained_cell (lines 142-155) at
\* cell index k = i*N + j; acc holds min, *row and *col.
RECURSIVE ScanFrom(_, _, _)
ScanFrom(st, k, acc) ==
    IF k >= N * N THEN acc
    ELSE LET i   == k \div N
             j   == k % N
             cnt == Len(get_possibilities_at(st, i, j))
         IN  IF st.inserted[i][j] = 0 /\ cnt < acc.min
             THEN ScanFrom(st, k + 1, [min |-> cnt, row |-> i, col |-> j])
             ELSE ScanFrom(st, k + 1, acc)

\* get_most_constrained_cell: the results the call can deliver.  *row and
\* *col are uninitialised locals of solve (line 244); when no cell is
\* uninserted the scan never writes them and line 156 reads them
\* uninitialised, so any cell may come out.
get_most_constrained_cell(st) ==
    LET r == ScanFrom(st, 0, [min |-> N + 1, row |-> -1, col |-> -1])
    IN  IF r.row = -1
        THEN { [row |-> i, col |-> j,
                possibilities |-> get_possibilities_at(st, i, j)] :
               i \in Idx, j \in Idx }
        ELSE { [row |-> r.row, col |-> r.col,
                possibilities |-> get_possibilities_at(st, r.row, r.col)] }

-----------------------------------------------------------------------------
NoneGiven == [i \in Idx |-> [j \in Idx |-> 0]]

\* How many digits the puzzle text read so far holds.
NumGiven == Cardinality({c \in Idx \X Idx : given[c[1]][c[2]] # 0})

\* main after new_sudoku (line 304), about to call read_input.
Init ==
    /\ s = new_sudoku
    /\ pc = "read_input"
    /\ given = NoneGiven
    /\ held = NoneGiven
    /\ pos = 0
    /\ ctl = "none"
    /\ stack = <<>>
    /\ found = 0

\* read_input, one iteration of the inner loop (lines 222-226): the
\* character c is a blank (0) or a digit 1..N, and a digit is inserted as
\* number c - 1.  A failed assertion aborts the process.
ReadChar(c) ==
    /\ pc = "read_input"
    /\ pos < N * N
    /\ pos < MaxInput
    /\ c # 0 => NumGiven < MaxClues
    /\ LET i == pos \div N
           j == pos % N
           r == IF c = 0 THEN [ok |-> TRUE, s |-> s]
                ELSE insert_number_at(s, i, j, c - 1)
       IN  /\ s' = r.s
           /\ pc' = IF r.ok THEN "read_input" ELSE "abort"
           /\ given' = [given EXCEPT ![i][j] = c]
           /\ held' = IF r.ok THEN [held EXCEPT ![i][j] = c] ELSE held
    /\ pos' = pos + 1
    /\ UNCHANGED <<ctl, stack, found>>

\* read_input returns, at end of file (line 224) or at the end of the
\* grid, and the caller calls solve (line 312).  solve is public in
\* sudoku.h:53, so the model lets a caller solve any state it has loaded,
\* the empty one included.
CallSolve ==
    /\ pc \in {"read_input", "api"}
    /\ pc' = "solve"
    /\ ctl' = "call"
    /\ pos' = 0
    /\ UNCHANGED <<s, given, held, stack, found>>

-----------------------------------------------------------------------------
\* The interface used directly: a client of insert_number_at (sudoku.h:64)
\* and remove_number_at that respects their preconditions.

InitApi ==
    /\ s = new_sudoku
    /\ pc = "api"
    /\ given = NoneGiven
    /\ held = NoneGiven
    /\ pos = 0
    /\ ctl = "none"
    /\ stack = <<>>
    /\ found = 0

\* Commit: insert_number_at on a cell that holds nothing, with a number
\* no restriction forbids there.
Commit(row, col, number) ==
    /\ pc = "api"
    /\ s.ninserted < MaxFilled
    /\ given[row][col] = 0
    /\ s.constraints[row][col][number] = 0
    /\ LET r == insert_number_at(s, row, col, number)
       IN  /\ s' = r.s
           /\ pc' = IF r.ok THEN "api" ELSE "abort"
    /\ given' = [given EXCEPT ![row][col] = number + 1]
    /\ held' = given'
    /\ UNCHANGED <<pos, ctl, stack, found>>

\* Retract: remove_number_at with the number committed at the cell and
\* not yet retracted.
Retract(row, col, number) ==
    /\ pc = "api"
    /\ given[row][col] = number + 1
    /\ LET r == remove_number_at(s, row, col, number)
       IN  /\ s' = r.s
           /\ pc' = IF r.ok THEN "api" ELSE "abort"
    /\ given' = [given EXCEPT ![row][col] = 0]
    /\ held' = given'
    /\ UNCHANGED <<pos, ctl, stack, found>>

-----------------------------------------------------------------------------
\* solve, unfolded.  A frame of the stack is an invocation inside its for
\* loop: row, col, possibilities (poss_count is its length) and i.

Top == stack[Len(stack)]

Pop == SubSeq(stack, 1, Len(stack) - 1)

\* Lines 241-242: every cell is inserted, return 1.
SolveSolved ==
    /\ pc = "solve" /\ ctl = "call"
    /\ s.ninserted = N * N
    /\ found' = 1
    /\ ctl' = "ret"
    /\ UNCHANGED <<s, pc, given, held, pos, stack>>

\* The dead end returned without line 258 (s->nbacktracks++).
SolveDeadEndUncounted ==
    /\ pc = "solve" /\ ctl = "call"
    /\ s.ninserted # N * N
    /\ found' = 0
    /\ ctl' = "ret"
    /\ UNCHANGED <<s, pc, given, held, pos, stack>>
    /\ \E sel \in get_most_constrained_cell(s) :
          Len(sel.possibilities) = 0

\* Lines 253-260: the selected cell has no possibility; count the
\* backtrack and return 0.
SolveDeadEnd ==
    /\ pc = "solve" /\ ctl = "call"
    /\ s.ninserted # N * N
    /\ found' = 0
    /\ ctl' = "ret"
    /\ UNCHANGED <<pc, given, held, pos, stack>>
    /\ s' = [s EXCEPT !.nbacktracks = @ + 1]
    /\ \E sel \in get_most_constrained_cell(s) :
          Len(sel.possibilities) = 0

\* Lines 253-262: the selected cell has possibilities; enter the for loop
\* with i = 0 and found_solution = 0.
SolveBranch ==
    /\ pc = "solve" /\ ctl = "call"
    /\ s.ninserted # N * N
    /\ ctl' = "loop"
    /\ UNCHANGED <<s, pc, given, held, pos, found>>
    /\ \E sel \in get_most_constrained_cell(s) :
          /\ Len(sel.possibilities) > 0
          /\ stack' = Append(stack, [row |-> sel.row, col |-> sel.col,
                                     possibilities |-> sel.possibilities,
                                     i |-> 0])

\* The for loop run from the last possibility down to the first.
SolveTryFromLast ==
    /\ pc = "solve" /\ ctl = "loop"
    /\ Top.i < Len(Top.possibilities)
    /\ LET r == insert_number_at(s, Top.row, Top.col,
                                 Top.possibilities[Len(Top.possibilities) - Top.i])
       IN  /\ s' = r.s
           /\ pc' = IF r.ok THEN "solve" ELSE "abort"
           /\ held' = IF r.ok
                      THEN [held EXCEPT ![Top.row][Top.col] =
                              Top.possibilities[Len(Top.possibilities) - Top.i] + 1]
                      ELSE held
    /\ ctl' = "call"
    /\ UNCHANGED <<given, pos, stack, found>>

\* Lines 263-266: i < poss_count; insert possibilities[i] and recurse.
SolveTry ==
    /\ pc = "solve" /\ ctl = "loop"
    /\ Top.i < Len(Top.possibilities)
    /\ LET r == insert_number_at(s, Top.row, Top.col,
                                 Top.possibilities[Top.i + 1])
       IN  /\ s' = r.s
           /\ pc' = IF r.ok THEN "solve" ELSE "abort"
           /\ held' = IF r.ok
                      THEN [held EXCEPT ![Top.row][Top.col] =
                                           Top.possibilities[Top.i + 1] + 1]
                      ELSE held
    /\ ctl' = "call"
    /\ UNCHANGED <<given, pos, stack, found>>

\* Lines 263, 272-273: i = poss_count; the loop ends and the frame
\* returns found_solution, which is 0 here (every recursive call failed).
SolveExhausted ==
    /\ pc = "solve" /\ ctl = "loop"
    /\ Top.i >= Len(Top.possibilities)
    /\ stack' = Pop
    /\ found' = 0
    /\ ctl' = "ret"
    /\ UNCHANGED <<s, pc, given, held, pos>>

\* Lines 266-268, 272-273: the recursive call returned 1; break and
\* return 1 without removing.
SolveFound ==
    /\ pc = "solve" /\ ctl = "ret"
    /\ stack # <<>>
    /\ found = 1
    /\ stack' = Pop
    /\ UNCHANGED <<s, pc, given, held, pos, ctl, found>>

\* The failed iteration without the i++ of line 263.
SolveRemoveNoIncrement ==
    /\ pc = "solve" /\ ctl = "ret"
    /\ stack # <<>>
    /\ found = 0
    /\ LET r == remove_number_at(s, Top.row, Top.col,
                                 Top.possibilities[Top.i + 1])
       IN  /\ s' = r.s
           /\ pc' = IF r.ok THEN "solve" ELSE "abort"
           /\ held' = IF r.ok THEN [held EXCEPT ![Top.row][Top.col] = 0]
                      ELSE held
    /\ ctl' = "loop"
    /\ UNCHANGED <<given, pos, stack, found>>

\* The failed iteration without the remove_number_at of line 269.
SolveRemoveKeepsNumber ==
    /\ pc = "solve" /\ ctl = "ret"
    /\ stack # <<>>
    /\ found = 0
    /\ stack' = [stack EXCEPT ![Len(stack)].i = @ + 1]
    /\ ctl' = "loop"
    /\ UNCHANGED <<s, pc, given, held, pos, found>>

\* Lines 266-269 and the i++ of line 263: the recursive call returned 0;
\* remove possibilities[i] and go to the next iteration.
SolveRemove ==
    /\ pc = "solve" /\ ctl = "ret"
    /\ stack # <<>>
    /\ found = 0
    /\ LET r == remove_number_at(s, Top.row, Top.col,
                                 Top.possibilities[Top.i + 1])
       IN  /\ s' = r.s
           /\ pc' = IF r.ok THEN "solve" ELSE "abort"
           /\ held' = IF r.ok THEN [held EXCEPT ![Top.row][Top.col] = 0]
                      ELSE held
    /\ stack' = [stack EXCEPT ![Len(stack)].i = @ + 1]
    /\ ctl' = "loop"
    /\ UNCHANGED <<given, pos, found>>

\* The outermost solve returns to its caller (line 312).
SolveReturn ==
    /\ pc = "solve" /\ ctl = "ret"
    /\ stack = <<>>
    /\ pc' = "done"
    /\ UNCHANGED <<s, given, held, pos, ctl, stack, found>>

Next ==
    \/ \E c \in 0 .. N : ReadChar(c)
    \/ CallSolve
    \/ SolveSolved
    \/ SolveDeadEnd
    \/ SolveBranch
    \/ SolveTry
    \/ SolveExhausted
    \/ SolveFound
    \/ SolveRemove
    \/ SolveReturn

Spec == Init /\ [][Next]_vars

NextApi ==
    \/ \E row \in Idx, col \in Idx, number \in Idx : Commit(row, col, number)
    \/ \E row \in Idx, col \in Idx, number \in Idx : Retract(row, col, number)
    \/ CallSolve
    \/ SolveSolved
    \/ SolveDeadEnd
    \/ SolveBranch
    \/ SolveTry
    \/ SolveExhausted
    \/ SolveFound
    \/ SolveRemove
    \/ SolveReturn

SpecApi == InitApi /\ [][NextApi]_vars

\* A client that does not respect the precondition "cell not inserted":
\* insert_number_at (sudoku.h:64) called for a cell that is inserted, with
\* any number.  The call runs change_state_at as for any other cell.
InsertAgain(row, col, number) ==
    /\ pc = "api"
    /\ s.ninserted < MaxFilled
    /\ s.inserted[row][col] = 1
    /\ LET r == insert_number_at(s, row, col, number)
       IN  /\ s' = r.s
           /\ pc' = IF r.ok THEN "api" ELSE "abort"
           /\ given' = IF r.ok THEN [given EXCEPT ![row][col] = number + 1]
                       ELSE given
    /\ held' = given'
    /\ UNCHANGED <<pos, ctl, stack, found>>

NextAnyInsert ==
    \/ \E row \in Idx, col \in Idx, number \in Idx : Commit(row, col, number)
    \/ \E row \in Idx, col \in Idx, number \in Idx : Retract(row, col, number)
    \/ \E row \in Idx, col \in Idx, number \in Idx :
          InsertAgain(row, col, number)

SpecAnyInsert == InitApi /\ [][NextAnyInsert]_vars

\* The steps of solve.  solve is sequential code with no suspension point:
\* once called it takes its next step as long as it has one.
SolveStep ==
    \/ SolveSolved
    \/ SolveBranch
    \/ SolveDeadEnd
    \/ SolveTry
    \/ SolveExhausted
    \/ SolveFound
    \/ SolveRemove
    \/ SolveReturn

FairSpecApi == SpecApi /\ WF_vars(SolveStep)

-----------------------------------------------------------------------------
\* Vocabulary of the properties.

Cells == Idx \X Idx

\* The cells of row r, of column c, and of the box of (r, c).
RowOf(r) == {x \in Cells : x[1] = r}

ColOf(c) == {x \in Cells : x[2] = c}

BoxOf(r, c) ==
    {x \in Cells : x[1] \div SQRT_N = r \div SQRT_N
                   /\ x[2] \div SQRT_N = c \div SQRT_N}

\* The rows, columns and boxes of the grid.
Groups ==
    {RowOf(r) : r \in Idx} \cup {ColOf(c) : c \in Idx}
        \cup {BoxOf(r, c) : r \in Idx, c \in Idx}

\* g gives every cell a number, and every row, column and box holds each
\* number exactly once.
IsSolvedGrid(g) ==
    \A grp \in Groups : \A v \in Idx :
        Cardinality({x \in grp : g[x[1]][x[2]] = v}) = 1

\* The rows that may stand in a solved grid: each number once.
RowPerms == {p \in [Idx -> Idx] : \A a, b \in Idx : a # b => p[a] # p[b]}

\* Row q may stand at row index k under the rows of the sequence g (the
\* rows 0 .. Len(g)-1): no number twice in a column or in a box.
RowFits(g, q, k) ==
    \A r \in 1 .. Len(g) : \A a, b \in Idx :
        (a = b \/ ((r - 1) \div SQRT_N = k \div SQRT_N
                   /\ a \div SQRT_N = b \div SQRT_N))
            => g[r][a] # q[b]

\* The sequences of k rows that fit together.
RECURSIVE RowsUpTo(_)
RowsUpTo(k) ==
    IF k = 0 THEN {<<>>}
    ELSE {Append(x[1], x[2]) :
            x \in {y \in RowsUpTo(k - 1) \X RowPerms : RowFits(y[1], y[2], k - 1)}}

\* Every solved grid, as a function of the row and the column.
SolvedGrids == {[i \in Idx |-> rows[i + 1]] : rows \in RowsUpTo(N)}

\* The clues given have a completion: a solved grid that agrees with them.
HasCompletion ==
    \E g \in SolvedGrids :
        \A x \in Cells : given[x[1]][x[2]] # 0 => g[x[1]][x[2]] = given[x[1]][x[2]] - 1

\* C1: when solve has returned to its caller on clues loaded without a
\* failed precondition, it returned 1 if the clues have a completion in
\* which every row, column and box holds each number exactly once, and 0 if
\* they have none.
SolveSuccessIffCompletion ==
    pc = "done" =>
        /\ found \in {0, 1}
        /\ (found = 1) <=> HasCompletion

\* A failed search that met more than one dead end on clues without a
\* completion.
SolveFailureWitness ==
    /\ pc = "done"
    /\ found = 0
    /\ ~HasCompletion
    /\ s.nbacktracks >= 2

\* The number the printer reads back at a cell (print, mode VALUE, lines
\* 180-189): the only possibility, if there is exactly one (-1 stands for
\* the wildcard character).
PrintedValue(i, j) ==
    LET p == get_possibilities_at(s, i, j)
    IN  IF Len(p) = 1 THEN p[1] ELSE -1

\* C2: when solve has returned 1, every cell is inserted, every cell has
\* exactly one number whose constraint count is 0, and these numbers put
\* each number exactly once in every row, column and box.
SolvedGridValid ==
    (pc = "done" /\ found = 1) =>
        /\ s.ninserted = N * N
        /\ \A x \in Cells :
              /\ s.inserted[x[1]][x[2]] = 1
              /\ Cardinality({v \in Idx : s.constraints[x[1]][x[2]][v] = 0}) = 1
        /\ IsSolvedGrid([i \in Idx |-> [j \in Idx |-> PrintedValue(i, j)]])

\* A successful search that had to backtrack on the way.
SolvedAfterBacktrackWitness ==
    /\ pc = "done"
    /\ found = 1
    /\ s.nbacktracks >= 1
    /\ s.ninserted = N * N

-----------------------------------------------------------------------------
\* Properties of the constraint grid, over the states the interface reaches.

\* Commit(r, c, v) is valid: the cell is not inserted and no restriction
\* forbids v there.
ValidCommit(r, c, v) ==
    s.inserted[r][c] = 0 /\ s.constraints[r][c][v] = 0

\* The number of possibilities of a cell in state st.
PossCount(st, x) == Len(get_possibilities_at(st, x[1], x[2]))

\* C3: from every reachable state and for every valid Commit(r, c, v), the
\* Commit followed at once by Retract(r, c, v) gives back the same
\* inserted flags, the same constraint counts and the same ninserted.
CommitRetractInverse ==
    \A r \in Idx, c \in Idx, v \in Idx :
        ValidCommit(r, c, v) =>
            LET a == insert_number_at(s, r, c, v)
                b == remove_number_at(a.s, r, c, v)
            IN  /\ a.ok
                /\ b.ok
                /\ b.s.inserted = s.inserted
                /\ b.s.constraints = s.constraints
                /\ b.s.ninserted = s.ninserted

\* A state with cells inserted where a valid Commit raises a count that
\* is already positive, which the Retract has to bring back.
CommitRetractWitness ==
    /\ s.ninserted >= 2
    /\ \E r \in Idx, c \in Idx, v \in Idx :
          /\ ValidCommit(r, c, v)
          /\ \E x \in Cells :
                /\ s.constraints[x[1]][x[2]][v] > 0
                /\ insert_number_at(s, r, c, v).s.constraints[x[1]][x[2]][v]
                       > s.constraints[x[1]][x[2]][v]

\* C4: from every reachable state, a valid Commit(r, c, v) returns and
\* leaves every other cell with at most as many possibilities as before.
CommitShrinksCandidates ==
    \A r \in Idx, c \in Idx, v \in Idx :
        ValidCommit(r, c, v) =>
            LET a == insert_number_at(s, r, c, v)
            IN  /\ a.ok
                /\ \A x \in Cells \ {<<r, c>>} :
                      PossCount(a.s, x) <= PossCount(s, x)

\* A valid Commit that takes a possibility from one cell and leaves the
\* possibilities of another cell as they are.
CommitShrinksWitness ==
    /\ s.ninserted >= 1
    /\ \E r \in Idx, c \in Idx, v \in Idx :
          /\ ValidCommit(r, c, v)
          /\ LET a == insert_number_at(s, r, c, v)
             IN  /\ \E x \in Cells \ {<<r, c>>} :
                       PossCount(a.s, x) < PossCount(s, x)
                 /\ \E x \in Cells \ {<<r, c>>} :
                       /\ s.inserted[x[1]][x[2]] = 0
                       /\ PossCount(a.s, x) = PossCount(s, x)

\* The cells not inserted, and the number of zero slots of a cell.
Uninserted == {x \in Cells : s.inserted[x[1]][x[2]] = 0}

ZeroSlots(x) == {v \in Idx : s.constraints[x[1]][x[2]][v] = 0}

\* The position of a cell in the row-major scan.
ScanIndex(x) == x[1] * N + x[2]

\* C5: in every state with a cell not inserted, the cell selector returns
\* one result: a cell not inserted whose number of possibilities is the
\* least among the cells not inserted, the first such cell in row-major
\* order, with all its possibilities in ascending order.
SelectorFirstMinimum ==
    Uninserted # {} =>
        /\ Cardinality(get_most_constrained_cell(s)) = 1
        /\ \A sel \in get_most_constrained_cell(s) :
              LET m == <<sel.row, sel.col>>
              IN  /\ m \in Uninserted
                  /\ \A x \in Uninserted :
                        \/ Cardinality(ZeroSlots(m)) < Cardinality(ZeroSlots(x))
                        \/ /\ Cardinality(ZeroSlots(m)) = Cardinality(ZeroSlots(x))
                           /\ ScanIndex(m) <= ScanIndex(x)
                  /\ Len(sel.possibilities) = Cardinality(ZeroSlots(m))
                  /\ {sel.possibilities[k] : k \in 1 .. Len(sel.possibilities)}
                        = ZeroSlots(m)
                  /\ \A k \in 1 .. Len(sel.possibilities) - 1 :
                        sel.possibilities[k] < sel.possibilities[k + 1]

\* The selected cell comes after a cell with more possibilities and before
\* a cell with as many.
SelectorTieWitness ==
    \E sel \in get_most_constrained_cell(s) :
        LET m == <<sel.row, sel.col>>
        IN  /\ m \in Uninserted
            /\ \E x \in Uninserted :
                  /\ ScanIndex(x) < ScanIndex(m)
                  /\ Cardinality(ZeroSlots(x)) > Cardinality(ZeroSlots(m))
            /\ \E y \in Uninserted :
                  /\ ScanIndex(y) > ScanIndex(m)
                  /\ Cardinality(ZeroSlots(y)) = Cardinality(ZeroSlots(m))

\* Cell x holds the number v.
Holds(x, v) == held[x[1]][x[2]] = v + 1

\* The peers of (r, c): the other cells of its row, its column and its box.
Peers(r, c) == (RowOf(r) \cup ColOf(c) \cup BoxOf(r, c)) \ {<<r, c>>}

\* How many cells of the set grp hold v.
HoldersIn(grp, v) == Cardinality({x \in grp : Holds(x, v)})

\* C7 as stated: for every cell (r, c) not inserted and every number v,
\* constraints[r][c][v] is the number of distinct peers that hold v.
CountIsDistinctPeers ==
    \A x \in Uninserted : \A v \in Idx :
        s.constraints[x[1]][x[2]][v] = HoldersIn(Peers(x[1], x[2]), v)

\* C7, amended: for every cell (r, c) not inserted and every number v,
\* constraints[r][c][v] is the number of cells holding v in the row of
\* (r, c), plus the number in its column, plus the number in its box, so
\* that a peer sharing the box and the row or column counts twice; it is 0
\* exactly when no peer holds v.
CountIsSumOverGroups ==
    \A x \in Uninserted : \A v \in Idx :
        /\ s.constraints[x[1]][x[2]][v] =
                HoldersIn(RowOf(x[1]), v) + HoldersIn(ColOf(x[2]), v)
                    + HoldersIn(BoxOf(x[1], x[2]), v)
        /\ (s.constraints[x[1]][x[2]][v] = 0)
                <=> (HoldersIn(Peers(x[1], x[2]), v) = 0)

\* A cell not inserted whose count for v is 2 while one peer holds v, and
\* a cell not inserted whose count for v is 1.
CountTwiceWitness ==
    \E x \in Uninserted, y \in Uninserted : \E v \in Idx :
        /\ s.constraints[x[1]][x[2]][v] = 2
        /\ HoldersIn(Peers(x[1], x[2]), v) = 1
        /\ s.constraints[y[1]][y[2]][v] = 1

\* C8: for every cell (r, c) not inserted, the candidate query returns
\* exactly the numbers that no peer holds, in ascending order, and its
\* count is the number of them.
CandidatesAreFreeNumbers ==
    \A x \in Uninserted :
        LET p    == get_possibilities_at(s, x[1], x[2])
            free == {v \in Idx : HoldersIn(Peers(x[1], x[2]), v) = 0}
        IN  /\ {p[k] : k \in 1 .. Len(p)} = free
            /\ Len(p) = Cardinality(free)
            /\ \A k \in 1 .. Len(p) - 1 : p[k] < p[k + 1]

\* A cell not inserted with two possibilities that are not neighbours,
\* the number between them being held by a peer.
CandidatesWitness ==
    \E x \in Uninserted :
        LET p == get_possibilities_at(s, x[1], x[2])
        IN  /\ Len(p) = 2
            /\ p[2] - p[1] >= 2
            /\ \E y \in Peers(x[1], x[2]) : Holds(y, p[1] + 1)

\* C9: in every state the interface or solve reaches, every constraint
\* count is at least 0.
CountsNonNegative ==
    \A i \in Idx, j \in Idx, n \in Idx : s.constraints[i][j][n] >= 0

\* solve has just removed a number and counts of peers are still positive.
CountsAfterRemoveWitness ==
    /\ pc = "solve"
    /\ ctl = "loop"
    /\ Top.i >= 1
    /\ \E i \in Idx, j \in Idx, n \in Idx : s.constraints[i][j][n] >= 2
    /\ \A i \in Idx, j \in Idx, n \in Idx : s.constraints[i][j][n] >= 0

-----------------------------------------------------------------------------
\* Properties of loading and of the search as a whole, over the program.

\* No two clues of the puzzle text read so far give the same number to two
\* cells of one row, column or box.
CluesConsistent ==
    \A grp \in Groups : \A x \in grp, y \in grp :
        (x # y /\ given[x[1]][x[2]] # 0) => given[x[1]][x[2]] # given[y[1]][y[2]]

\* read_input reads a digit whose number has a positive constraint count
\* at the cell it is read for.
ReadsForbiddenDigit ==
    /\ pc = "read_input"
    /\ pos' = pos + 1
    /\ LET i == pos \div N
           j == pos % N
       IN  /\ given'[i][j] # 0
           /\ s.constraints[i][j][given'[i][j] - 1] > 0

\* C6: an insertion asked for while the constraint count of the number at
\* the cell is positive stops the process with the inserted flags, the
\* constraint counts and ninserted as they were, and solve is never
\* called on clues that give one number twice in a row, column or box.
ForbiddenCommitStopped ==
    /\ [](pc \in {"solve", "done"} => CluesConsistent)
    /\ [][ReadsForbiddenDigit => (pc' = "abort" /\ s' = s)]_vars

\* Loading stopped at a clue that repeats a number of its row, column or
\* box, with the earlier clues inserted.
ForbiddenCommitWitness ==
    /\ pc = "abort"
    /\ ~CluesConsistent
    /\ s.ninserted >= 1
    /\ s.ninserted = Cardinality({x \in Cells : s.inserted[x[1]][x[2]] = 1})

\* The smaller of two lengths.
MinLen(a, b) == IF Len(a) < Len(b) THEN Len(a) ELSE Len(b)

\* A step keeps the cell and the possibilities of every frame that stays
\* on the stack and never moves its i backwards, and the loop of a frame
\* is entered again after a failed recursive call only with i advanced.
FramesAdvance ==
    /\ \A k \in 1 .. MinLen(stack, stack') :
          /\ stack'[k].row = stack[k].row
          /\ stack'[k].col = stack[k].col
          /\ stack'[k].possibilities = stack[k].possibilities
          /\ stack'[k].i >= stack[k].i
    /\ (ctl = "ret" /\ ctl' = "loop") =>
          /\ Len(stack') = Len(stack)
          /\ stack'[Len(stack)].i = stack[Len(stack)].i + 1

\* C10: once called, solve eventually returns to its caller, and no frame
\* goes back to a possibility it has already tried.
SolveTerminates ==
    /\ (pc = "solve") ~> (pc = "done")
    /\ [][FramesAdvance]_vars

\* solve has returned, every frame popped, after a search that met a dead
\* end, removed a number and went on.
SolveTerminatesWitness ==
    /\ pc = "done"
    /\ stack = <<>>
    /\ s.nbacktracks >= 1
    /\ held # given

-----------------------------------------------------------------------------
\* Properties of the order of the search.

\* The cell of frame f, and the possibility its for loop is at.
FrameCell(f) == <<f.row, f.col>>

FrameNumber(f) == f.possibilities[f.i + 1]

\* The cells whose number solve has inserted and not removed.
Outstanding == {x \in Cells : held[x[1]][x[2]] # given[x[1]][x[2]]}

\* The frames whose insertion is not removed: every frame but a top frame
\* standing at the head of its loop.
Inside == IF ctl = "loop" THEN Len(stack) - 1 ELSE Len(stack)

\* A step of solve that changes the number a cell holds is an insertion
\* or a removal at the cell of the top frame, of the possibility the loop
\* is at: an insertion at the head of the loop into the empty cell, or a
\* removal after the recursive call returned 0, followed by i++.
InsertsAndRemovesInTurn ==
    (pc = "solve" /\ held' # held) =>
        /\ stack # <<>>
        /\ Top.i < Len(Top.possibilities)
        /\ \A x \in Cells \ {FrameCell(Top)} :
              held'[x[1]][x[2]] = held[x[1]][x[2]]
        /\ \/ /\ ctl = "loop"
              /\ held[Top.row][Top.col] = 0
              /\ held'[Top.row][Top.col] = FrameNumber(Top) + 1
              /\ s'.ninserted = s.ninserted + 1
              /\ ctl' = "call"
              /\ stack' = stack
           \/ /\ ctl = "ret"
              /\ found = 0
              /\ held[Top.row][Top.col] = FrameNumber(Top) + 1
              /\ held'[Top.row][Top.col] = 0
              /\ s'.ninserted = s.ninserted - 1
              /\ ctl' = "loop"
              /\ Len(stack') = Len(stack)
              /\ stack'[Len(stack)].i = Top.i + 1
              /\ Outstanding = {FrameCell(stack[k]) : k \in 1 .. Len(stack)}

\* After a recursive call returned 1 nothing is inserted or removed and
\* the 1 is handed up.
SuccessPropagates ==
    (pc = "solve" /\ ctl = "ret" /\ found = 1) =>
        /\ s' = s
        /\ held' = held
        /\ found' = 1
        /\ ctl' = "ret"

\* The possibilities of every frame ascend strictly, the frames stand at
\* different cells, and the cells of the frames whose insertion is not
\* removed hold the possibility their loop is at; until a call returns 1
\* these are the only cells solve has filled.
FramesHoldInsertions ==
    pc = "solve" =>
        /\ \A k \in 1 .. Len(stack) :
              \A a \in 1 .. Len(stack[k].possibilities) - 1 :
                  stack[k].possibilities[a] < stack[k].possibilities[a + 1]
        /\ \A k \in 1 .. Len(stack) : \A l \in 1 .. Len(stack) :
              k # l => FrameCell(stack[k]) # FrameCell(stack[l])
        /\ \A k \in 1 .. Inside :
              /\ stack[k].i < Len(stack[k].possibilities)
              /\ held[stack[k].row][stack[k].col] = FrameNumber(stack[k]) + 1
              /\ given[stack[k].row][stack[k].col] = 0
        /\ found = 0 =>
              Outstanding = {FrameCell(stack[k]) : k \in 1 .. Inside}

\* C11: a frame inserts its possibilities in strictly ascending order, one
\* at a time; it removes a number only after the recursive call on it
\* returned 0 and before it inserts the next; after a recursive call
\* returned 1 no enclosing frame inserts or removes; and a removal always
\* takes back the latest insertion not yet removed (the frames above the
\* removing frame are gone and their insertions removed).
CandidatesTriedInOrder ==
    /\ []FramesHoldInsertions
    /\ [][InsertsAndRemovesInTurn]_vars
    /\ [][SuccessPropagates]_vars

\* A frame two levels down has removed its first possibility and inserted
\* the second, under a frame that still holds its insertion.
SecondCandidateWitness ==
    /\ pc = "solve"
    /\ ctl = "call"
    /\ Len(stack) >= 2
    /\ Top.i >= 1
    /\ held[Top.row][Top.col] = Top.possibilities[Top.i + 1] + 1
    /\ held[stack[1].row][stack[1].col] # 0

\* solve is being entered with a cell left to insert and some cell not
\* inserted has no possibility.
EntersDeadEnd ==
    /\ pc = "solve"
    /\ ctl = "call"
    /\ s.ninserted < N * N
    /\ \E x \in Uninserted : ZeroSlots(x) = {}

\* An invocation entered at a dead end returns 0 at once: nbacktracks
\* goes up by 1 and nothing else of the state changes.
DeadEndStep ==
    EntersDeadEnd =>
        /\ s' = [s EXCEPT !.nbacktracks = @ + 1]
        /\ held' = held
        /\ stack' = stack
        /\ found' = 0
        /\ ctl' = "ret"
        /\ pc' = "solve"

\* nbacktracks changes at a dead end only: entering the loop, inserting,
\* removing and returning leave it alone.
CountsDeadEndsOnly ==
    s'.nbacktracks # s.nbacktracks => EntersDeadEnd

\* C12: an invocation of solve entered with fewer than N*N cells inserted
\* and a cell not inserted that has no possibility returns 0 without
\* inserting or removing and adds exactly 1 to nbacktracks; no other step
\* of solve, the steps of a frame that branches among them, changes
\* nbacktracks.
DeadEndCountsOnce ==
    /\ [][DeadEndStep]_vars
    /\ [][CountsDeadEndsOnly]_vars

\* An invocation below a branching frame has just returned 0 at a dead
\* end: the cell without possibilities comes after a cell not inserted
\* that still has some, and only that invocation has counted.
DeadEndWitness ==
    /\ pc = "solve"
    /\ ctl = "ret"
    /\ found = 0
    /\ stack # <<>>
    /\ s.nbacktracks = 1
    /\ \E x \in Uninserted :
          /\ ZeroSlots(x) = {}
          /\ \E y \in Uninserted :
                ScanIndex(y) < ScanIndex(x) /\ ZeroSlots(y) # {}

-----------------------------------------------------------------------------
\* Properties of what the search keeps and what it restores.

\* The state the caller loaded before it called solve: the clues inserted
\* into the empty sudoku in row-major order, up to cell index k.
RECURSIVE LoadedUpTo(_)
LoadedUpTo(k) ==
    IF k = 0 THEN new_sudoku
    ELSE LET st == LoadedUpTo(k - 1)
             i  == (k - 1) \div N
             j  == (k - 1) % N
         IN  IF given[i][j] = 0 THEN st
             ELSE insert_number_at(st, i, j, given[i][j] - 1).s

\* The state in which the invocation called by frame k was entered: the
\* loaded state with the insertions of the frames 1 .. k on top.
RECURSIVE EnteredBelow(_)
EnteredBelow(k) ==
    IF k = 0 THEN LoadedUpTo(N * N)
    ELSE insert_number_at(EnteredBelow(k - 1), stack[k].row, stack[k].col,
                          FrameNumber(stack[k])).s

\* st and s agree on everything but nbacktracks.
SameButBacktracks(st) ==
    /\ s.inserted = st.inserted
    /\ s.constraints = st.constraints
    /\ s.ninserted = st.ninserted

\* C13: an invocation of solve, the outermost one or a recursive one, is
\* entered in the state its caller built, and when it returns 0 the
\* inserted flags, the constraint counts and ninserted are again those of
\* that state (the stack and the clues are the same at both moments).
FailureRestoresState ==
    /\ (pc = "solve" /\ (ctl = "call" \/ (ctl = "ret" /\ found = 0)))
          => SameButBacktracks(EnteredBelow(Len(stack)))
    /\ (pc = "done" /\ found = 0)
          => SameButBacktracks(LoadedUpTo(N * N))

\* The outermost solve has returned 0 after a search that inserted,
\* met dead ends and removed, and the state is the loaded one.
FailureRestoredWitness ==
    /\ pc = "done"
    /\ found = 0
    /\ s.nbacktracks >= 2
    /\ NumGiven >= 2
    /\ s.ninserted = NumGiven
    /\ held = given

\* The cells the caller gave a clue for.
ClueCells == {x \in Cells : given[x[1]][x[2]] # 0}

\* C14: from the call of solve on, in every state of the search and after
\* its return, every clue cell is inserted, holds the number of its clue
\* and reads back as that number, and no frame stands at a clue cell; so
\* the grid left by a return of 1 is a solved grid that agrees with the
\* clues.
CluesKept ==
    pc \in {"solve", "done"} =>
        /\ \A x \in ClueCells :
              /\ s.inserted[x[1]][x[2]] = 1
              /\ held[x[1]][x[2]] = given[x[1]][x[2]]
              /\ PrintedValue(x[1], x[2]) = given[x[1]][x[2]] - 1
        /\ \A k \in 1 .. Len(stack) : FrameCell(stack[k]) \notin ClueCells
        /\ (pc = "done" /\ found = 1) =>
              LET g == [i \in Idx |-> [j \in Idx |-> PrintedValue(i, j)]]
              IN  /\ IsSolvedGrid(g)
                  /\ \A x \in ClueCells :
                        g[x[1]][x[2]] = given[x[1]][x[2]] - 1

\* The search is under way below two frames, has already removed a
\* number next to the clues, and the clues stand.
CluesKeptWitness ==
    /\ pc = "solve"
    /\ Len(stack) >= 2
    /\ stack[1].i >= 1
    /\ Cardinality(ClueCells) >= 2
    /\ \A x \in ClueCells : held[x[1]][x[2]] = given[x[1]][x[2]]

-----------------------------------------------------------------------------
\* Properties of the assertions and of the bookkeeping.

\* The slot constraints[row][col][number] as line 104 finds it, after the
\* sweeps with the given shift.
OwnSlotSwept(row, col, number, shift) ==
    Swept(s, row, col, number, shift)[row][col][number]

\* read_input inserts a digit the restrictions allow at its cell: the
\* cell is not inserted, line 104 finds 4, and the call returns.
LoadsAllowedDigit ==
    LET i == pos \div N
        j == pos % N
    IN  (/\ pc = "read_input"
         /\ pos' = pos + 1
         /\ given'[i][j] # 0
         /\ s.constraints[i][j][given'[i][j] - 1] = 0)
        => /\ s.inserted[i][j] = 0
           /\ OwnSlotSwept(i, j, given'[i][j] - 1, 1) = 4
           /\ pc' = "read_input"
           /\ s'.inserted[i][j] = 1
           /\ s'.constraints[i][j][given'[i][j] - 1] = 0

\* solve inserts (line 265): the cell is not inserted, the slot of the
\* number is 0, line 104 finds 4, and the call returns.
SolveInsertPasses ==
    (pc = "solve" /\ ctl = "loop" /\ Top.i < Len(Top.possibilities))
        => /\ s.inserted[Top.row][Top.col] = 0
           /\ s.constraints[Top.row][Top.col][FrameNumber(Top)] = 0
           /\ OwnSlotSwept(Top.row, Top.col, FrameNumber(Top), 1) = 4
           /\ pc' = "solve"
           /\ s'.inserted[Top.row][Top.col] = 1
           /\ s'.constraints[Top.row][Top.col][FrameNumber(Top)] = 0

\* solve removes (line 269): the cell holds the number, inserted by this
\* frame, the slot of the number is still 0, line 104 finds -4, and the
\* call returns.
SolveRemovePasses ==
    (pc = "solve" /\ ctl = "ret" /\ found = 0 /\ stack # <<>>)
        => /\ Top.i < Len(Top.possibilities)
           /\ s.inserted[Top.row][Top.col] = 1
           /\ given[Top.row][Top.col] = 0
           /\ held[Top.row][Top.col] = FrameNumber(Top) + 1
           /\ s.constraints[Top.row][Top.col][FrameNumber(Top)] = 0
           /\ OwnSlotSwept(Top.row, Top.col, FrameNumber(Top), -1) = -4
           /\ pc' = "solve"
           /\ s'.inserted[Top.row][Top.col] = 0
           /\ s'.constraints[Top.row][Top.col][FrameNumber(Top)] = 0

\* C15: while clues that the restrictions allow are loaded and during the
\* whole of solve no assertion of change_state_at fails: every insertion
\* is at a cell not inserted whose slot for the number is 0, every removal
\* by solve is of a number solve inserted and whose slot is still 0, line
\* 104 finds exactly 4 or -4 before line 105 resets the slot, and the
\* process aborts only on clues that give a number twice in a row, column
\* or box.
NoAssertionFails ==
    /\ [](pc = "abort" => ~CluesConsistent)
    /\ [][LoadsAllowedDigit]_vars
    /\ [][SolveInsertPasses]_vars
    /\ [][SolveRemovePasses]_vars

\* solve has just removed a number two frames down, on clues that were
\* loaded, and every cell that holds a number has the slot of it at 0.
AssertionsPassedWitness ==
    /\ pc = "solve"
    /\ ctl = "loop"
    /\ Len(stack) >= 2
    /\ Top.i >= 1
    /\ ClueCells # {}
    /\ \A x \in Cells :
          held[x[1]][x[2]] # 0 =>
              s.constraints[x[1]][x[2]][held[x[1]][x[2]] - 1] = 0

\* The cells that are inserted.
InsertedCells == {x \in Cells : s.inserted[x[1]][x[2]] = 1}

\* C16: in every state reached by insertions and removals that respect
\* the preconditions, and by solve, an inserted cell holding v has the
\* slot of v at 0 and the slot of every other number at 1 or more, so
\* get_possibilities_at returns for it the one number v, which is the
\* number the printer shows.
InsertedCellReadsItsNumber ==
    \A x \in InsertedCells :
        LET v == held[x[1]][x[2]] - 1
        IN  /\ v \in Idx
            /\ s.constraints[x[1]][x[2]][v] = 0
            /\ \A w \in Idx \ {v} : s.constraints[x[1]][x[2]][w] >= 1
            /\ get_possibilities_at(s, x[1], x[2]) = <<v>>
            /\ PrintedValue(x[1], x[2]) = v

\* An inserted cell with a slot at exactly 1 (no peer holds that number)
\* and a slot at 3 or more (peers hold that number), next to a cell that
\* is not inserted.
InsertedCellWitness ==
    /\ Uninserted # {}
    /\ \E x \in InsertedCells :
          /\ \E w \in Idx : s.constraints[x[1]][x[2]][w] = 1
          /\ \E w \in Idx : s.constraints[x[1]][x[2]][w] >= 3

\* C17: in every state of loading and of solve, ninserted is the number
\* of cells whose inserted flag is set, so the test of line 241
\* (ninserted == N*N) holds exactly when every cell is inserted.
NinsertedCountsFlags ==
    /\ s.ninserted = Cardinality(InsertedCells)
    /\ (s.ninserted = N * N) <=> (Uninserted = {})

\* solve is entered with every cell inserted, below frames that inserted
\* some of them after a removal: the test of line 241 is about to hold.
AllInsertedWitness ==
    /\ pc = "solve"
    /\ ctl = "call"
    /\ s.ninserted = N * N
    /\ Uninserted = {}
    /\ s.nbacktracks >= 1
    /\ ClueCells # {}
    /\ Len(stack) = N * N - Cardinality(ClueCells)

\* C18 as stated: insert_number_at for a cell that is inserted fails an
\* assertion of change_state_at whatever the number, the number the cell
\* holds included, and so ninserted never exceeds the number of cells
\* whose inserted flag is set.
InsertOnInsertedRejected ==
    /\ \A x \in InsertedCells : \A v \in Idx :
          ~insert_number_at(s, x[1], x[2], v).ok
    /\ s.ninserted <= Cardinality(InsertedCells)

\* The number of invocations of solve that are active: the frames inside
\* their for loop, and the invocation being entered, if any.
Depth == IF pc = "solve"
         THEN Len(stack) + (IF ctl = "call" THEN 1 ELSE 0)
         ELSE 0

\* C19 as stated: never more than N*N invocations of solve are active.
DepthWithinGrid ==
    Depth <= N * N

\* A step of solve that inserts is taken by the top frame at the head of
\* its loop, while its cell is not inserted: the frame holds no insertion
\* of its own when it makes one.
FrameInsertsWhenEmpty ==
    (pc = "solve" /\ s'.ninserted > s.ninserted) =>
        /\ ctl = "loop"
        /\ s'.ninserted = s.ninserted + 1
        /\ s.inserted[Top.row][Top.col] = 0
        /\ held[Top.row][Top.col] = 0
        /\ s'.inserted = [s.inserted EXCEPT ![Top.row][Top.col] = 1]

\* The active invocations are at most the cells the caller left open plus
\* one, and the numbers solve holds are one for each frame that is not at
\* the head of its loop.
DepthAndInsertionsBounded ==
    pc = "solve" =>
        /\ Depth <= N * N - Cardinality(ClueCells) + 1
        /\ Depth <= N * N + 1
        /\ ClueCells # {} => Depth <= N * N
        /\ found = 0 => s.ninserted = Cardinality(ClueCells) + Inside
        /\ Cardinality({FrameCell(stack[k]) : k \in 1 .. Len(stack)})
              = Len(stack)

\* C19, amended: never more than N*N + 1 invocations of solve are active
\* (N*N frames that hold one insertion each and the innermost invocation,
\* which finds every cell inserted), never more than N*N when the caller
\* gave a clue, and every active frame holds at most one insertion that is
\* not removed.
DepthWithinGridPlusOne ==
    /\ []DepthAndInsertionsBounded
    /\ [][FrameInsertsWhenEmpty]_vars

\* solve on the sudoku without clues: N*N frames, each holding one
\* insertion, and one more invocation being entered.
DeepestWitness ==
    /\ pc = "solve"
    /\ ctl = "call"
    /\ ClueCells = {}
    /\ Len(stack) = N * N
    /\ Depth = N * N + 1
    /\ s.ninserted = N * N

====
